---- MODULE Spec2Model ----
(***************************************************************************)
(* InMemoryCache.py: a thread-safe in-memory cache with TTL and LRU        *)
(* eviction, and the Flask handlers in front of it.                        *)
(* LoadBalancer.py: a round-robin forwarder over a list of backends.       *)
(*                                                                         *)
(* Python values are records [kind, n]: None, int, bool and str can be     *)
(* compared with each other without leaving the value universe.            *)
(* The OrderedDict is a sequence of items, first = least recently used.    *)
(* time.time() is an integer clock `now`; a handler that reads the clock   *)
(* several times may see it advance between two readings.                  *)
(***************************************************************************)
EXTENDS Integers, Sequences, FiniteSets, TLC

VARIABLES cache, now, max_size, default_ttl, last, touched, pc, _lock, frame,
          heap, current, lock, handler, chosen

vars == <<cache, now, max_size, default_ttl, last, touched, pc, _lock, frame,
          heap, current, lock, handler, chosen>>

(* what the threads of the concurrent specification add to the state *)
tvars == <<pc, _lock, frame>>

(* LoadBalancer.py: the module globals, the handler threads, and the       *)
(* backends chosen so far, in the order the handlers chose them            *)
lbvars == <<current, lock, handler, chosen>>

(* ---------------------------------------------------------------- bounds *)
MaxTime == 2

(* how many requests the load balancer takes *)
MaxSelections == 4

(* constructor arguments, and how far the clock may move between two     *)
(* readings of one call                                                   *)
Capacities == {1, 2}
DefaultTtls == {1}
Drifts == {0, 1}

(* --------------------------------------------------------- Python values *)
PyNone == [kind |-> "none", n |-> 0]
PyInt(i) == [kind |-> "int", n |-> i]
PyBool(b) == [kind |-> "bool", n |-> IF b THEN 1 ELSE 0]
PyStr == [kind |-> "str", n |-> 0]

Keys == {"a", "b", "c"}
Values == {PyNone, PyInt(1)}
TtlArgs == {PyNone, PyInt(-1), PyInt(0), PyInt(1), PyStr}

(* `ttl > 0` raises TypeError for None and str operands *)
Comparable(ttl) == ttl.kind \in {"int", "bool"}

(* ------------------------------------------------------ OrderedDict view *)
KeysOf(c) == {c[i].key : i \in 1..Len(c)}
KeyIn(c, key) == key \in KeysOf(c)
Item(c, key) == c[CHOOSE i \in 1..Len(c) : c[i].key = key]
DelKey(c, key) == SelectSeq(c, LAMBDA e : e.key # key)

(* -------------------------------------------------------- private methods *)
IsExpiredAtDeadline(item, t) ==
    IF item.ttl = PyNone THEN FALSE ELSE t >= item.expires_at.n

(* _is_expired(item), with t the value time.time() returns *)
_is_expired(item, t) ==
    IF item.ttl = PyNone THEN FALSE ELSE t > item.expires_at.n

(* _evict_expired(), with t its current_time *)
_evict_expired(c, t) ==
    SelectSeq(c, LAMBDA e : ~(e.ttl # PyNone /\ t > e.expires_at.n))

EvictLruOffByOne(c, cap) ==
    IF Len(c) > cap THEN Tail(c) ELSE c

EvictLruNewest(c, cap) ==
    IF Len(c) >= cap THEN SubSeq(c, 1, Len(c) - 1) ELSE c

(* _evict_lru(): popitem(last=False) when at capacity *)
_evict_lru(c, cap) ==
    IF Len(c) >= cap THEN Tail(c) ELSE c

(* ------------------------------------------------------------ put, pure *)
EffectiveTtl(ttl, dflt) == IF ttl = PyNone THEN PyInt(dflt) ELSE ttl

ExpiresAtZeroOnly(ttl, t1) == IF ttl.n # 0 THEN PyInt(t1 + ttl.n) ELSE PyNone

(* line 69 *)
ExpiresAt(ttl, t1) == IF ttl.n > 0 THEN PyInt(t1 + ttl.n) ELSE PyNone

(* lines 82-87 *)
NewItem(key, value, ttl, t1, t3) ==
    [key |-> key, value |-> value,
     ttl |-> IF ttl.n > 0 THEN ttl ELSE PyNone,
     expires_at |-> ExpiresAt(ttl, t1),
     created_at |-> t3]

MakeRoomEvictFirst(c, key, cap) == DelKey(_evict_lru(c, cap), key)

(* lines 75-79 *)
MakeRoom(c, key, cap) ==
    IF KeyIn(c, key) THEN DelKey(c, key) ELSE _evict_lru(c, cap)

PutStoreEvictBeforeSweep(c, key, value, ttl, cap, t1, t2, t3) ==
    Append(_evict_expired(MakeRoom(c, key, cap), t2),
           NewItem(key, value, ttl, t1, t3))

(* the store after put(key, value, ttl); ttl is the effective ttl and the  *)
(* clock reads t1 (line 69), t2 (line 35) and t3 (line 86)                 *)
PutStore(c, key, value, ttl, cap, t1, t2, t3) ==
    Append(MakeRoom(_evict_expired(c, t2), key, cap),
           NewItem(key, value, ttl, t1, t3))

(* ------------------------------------------------------------ get, pure *)
GetStoreKeepsExpired(c, key, t) ==
    IF ~KeyIn(c, key) THEN c
    ELSE IF _is_expired(Item(c, key), t) THEN c
    ELSE Append(DelKey(c, key), Item(c, key))

GetStoreSweeps(c, key, t) ==
    IF ~KeyIn(c, key) THEN _evict_expired(c, t)
    ELSE IF _is_expired(Item(c, key), t) THEN _evict_expired(c, t)
    ELSE Append(DelKey(_evict_expired(c, t), key), Item(c, key))

GetStoreNoMove(c, key, t) ==
    IF ~KeyIn(c, key) THEN c
    ELSE IF _is_expired(Item(c, key), t) THEN DelKey(c, key)
    ELSE c

GetStore(c, key, t) ==
    IF ~KeyIn(c, key) THEN c
    ELSE IF _is_expired(Item(c, key), t) THEN DelKey(c, key)
    ELSE Append(DelKey(c, key), Item(c, key))

GetRet(c, key, t) ==
    IF ~KeyIn(c, key) THEN PyNone
    ELSE IF _is_expired(Item(c, key), t) THEN PyNone
    ELSE Item(c, key).value

(* --------------------------------------------------------- delete, pure *)
DeleteStore(c, key) == IF KeyIn(c, key) THEN DelKey(c, key) ELSE c

DeleteRetAlways(c, key) == PyBool(TRUE)

DeleteRetLiveOnly(c, key) ==
    PyBool(KeyIn(c, key) /\ ~_is_expired(Item(c, key), now))

DeleteRet(c, key) == PyBool(KeyIn(c, key))

(* ---------------------------------------------------- size, stats, pure *)
SizeRet(c, t) == PyInt(Len(_evict_expired(c, t)))

StatsRetRaw(c, t, cap, dflt) ==
    [size |-> PyInt(Len(c)), max_size |-> cap, default_ttl |-> dflt]

StatsRet(c, t, cap, dflt) ==
    [size |-> PyInt(Len(_evict_expired(c, t))),
     max_size |-> cap, default_ttl |-> dflt]

(* ------------------------------------------------------------- history *)
(* `last` records the most recent call: which one, its key, what it        *)
(* returned, whether it raised, and the HTTP status when it was a request; *)
(* whether the key was stored when the call began (had), the keys whose    *)
(* entries had their expires_at in the past at the clock value t the call  *)
(* read (stale) and the keys the call removed from the store (gone).       *)
(* `touched` lists the stored keys in the order of their last successful   *)
(* get or put, oldest first; it is kept from the calls made, not from the  *)
(* order of the OrderedDict.                                               *)
NoKey == "-"

(* expires_at is set and strictly less than t *)
Past(item, t) == item.expires_at # PyNone /\ item.expires_at.n < t

Call(op, key, t, ret, raised, status) ==
    [op |-> op, key |-> key, ret |-> ret, raised |-> raised,
     status |-> status,
     had |-> KeyIn(cache, key),
     stale |-> {k \in KeysOf(cache) : Past(Item(cache, k), t)},
     gone |-> KeysOf(cache) \ KeysOf(cache')]

Touch(seq, key) == Append(SelectSeq(seq, LAMBDA k : k # key), key)

Stored(seq, c) == SelectSeq(seq, LAMBDA k : KeyIn(c, k))

(* -------------------------------------------------------------- threads *)
Threads == {1, 2}
NoThread == 0

NoItem == [key |-> NoKey, value |-> PyNone, ttl |-> PyNone,
           expires_at |-> PyNone, created_at |-> 0]

(* the locals of a call: its arguments, the item get looked up, the clock  *)
(* values read so far, what it returns or raises, and the store as it was  *)
(* when the call took the lock                                             *)
NoFrame == [op |-> "none", key |-> NoKey, value |-> PyNone, ttl |-> PyNone,
            item |-> NoItem, t1 |-> 0, t2 |-> 0, t3 |-> 0,
            ret |-> PyNone, exc |-> "none", snap |-> <<>>]

ThreadsIdle ==
    /\ pc = [t \in Threads |-> "idle"]
    /\ _lock = NoThread
    /\ frame = [t \in Threads |-> NoFrame]

(* ------------------------------------------------------ caller objects *)
(* A mutable value (a list, a dict) is a reference into the heap; the heap *)
(* gives each object its present contents. put stores the reference it is  *)
(* given (line 83) and get returns the stored reference (line 115).        *)
ObjectIds == {1, 2}
Contents == {0, 1}
PyRef(id) == [kind |-> "ref", n |-> id]
Refs == {PyRef(id) : id \in ObjectIds}

HeapFresh == heap = [id \in ObjectIds |-> 0]

(* what a caller reads through the value v *)
Deref(v, h) == IF v.kind = "ref" THEN [kind |-> "object", n |-> h[v.n]] ELSE v

(* --------------------------------------------------------- LoadBalancer *)
BACKENDS == <<"http://localhost:8001", "http://localhost:8002",
              "http://localhost:8003">>

Handlers == {1, 2}
NoHandler == 0
NoBackend == "-"

LoadBalancerIdle ==
    /\ current = 0
    /\ lock = NoHandler
    /\ handler = [h \in Handlers |-> [pc |-> "idle", backend |-> NoBackend]]
    /\ chosen = <<>>

(* ----------------------------------------------------------------- Init *)
Init ==
    /\ cache = <<>>
    /\ now = 0
    /\ max_size \in Capacities
    /\ default_ttl \in DefaultTtls
    /\ last = [op |-> "init", key |-> NoKey, ret |-> PyNone, raised |-> FALSE,
                status |-> 0, had |-> FALSE, stale |-> {}, gone |-> {}]
    /\ touched = <<>>
    /\ ThreadsIdle
    /\ HeapFresh
    /\ LoadBalancerIdle

(* -------------------------------------------------------------- actions *)
(* time passes while no call is running *)
Tick ==
    /\ now < MaxTime
    /\ now' = now + 1
    /\ UNCHANGED <<cache, max_size, default_ttl, last, touched, tvars, heap,
                   lbvars>>

(* put(key, value, ttl) *)
put(key, value, ttl) ==
    LET eff == EffectiveTtl(ttl, default_ttl) IN
    IF ~Comparable(eff)
    THEN (* line 69 raises TypeError; the with block releases the lock *)
         /\ UNCHANGED <<cache, now, max_size, default_ttl, touched, tvars, heap,
                        lbvars>>
         /\ last' = Call("put", key, now, PyNone, TRUE, 0)
    ELSE \E d1 \in Drifts, d2 \in Drifts :
         LET t1 == now
             t2 == now + d1
             t3 == now + d1 + d2
         IN /\ t3 <= MaxTime
            /\ cache' = PutStore(cache, key, value, eff, max_size, t1, t2, t3)
            /\ now' = t3
            /\ touched' = Stored(Touch(touched, key), cache')
            /\ last' = Call("put", key, t2, PyBool(TRUE), FALSE, 0)
            /\ UNCHANGED <<max_size, default_ttl, tvars, heap, lbvars>>

(* get(key) *)
get(key) ==
    /\ cache' = GetStore(cache, key, now)
    /\ touched' = IF KeyIn(cache, key) /\ ~Past(Item(cache, key), now)
                  THEN Stored(Touch(touched, key), cache')
                  ELSE Stored(touched, cache')
    /\ last' = Call("get", key, now, GetRet(cache, key, now), FALSE, 0)
    /\ UNCHANGED <<now, max_size, default_ttl, tvars, heap, lbvars>>

(* delete(key) *)
delete(key) ==
    /\ cache' = DeleteStore(cache, key)
    /\ touched' = Stored(touched, cache')
    /\ last' = Call("delete", key, now, DeleteRet(cache, key), FALSE, 0)
    /\ UNCHANGED <<now, max_size, default_ttl, tvars, heap, lbvars>>

(* clear() *)
clear ==
    /\ cache' = <<>>
    /\ touched' = <<>>
    /\ last' = Call("clear", NoKey, now, PyNone, FALSE, 0)
    /\ UNCHANGED <<now, max_size, default_ttl, tvars, heap, lbvars>>

(* size() *)
size ==
    /\ cache' = _evict_expired(cache, now)
    /\ touched' = Stored(touched, cache')
    /\ last' = Call("size", NoKey, now, SizeRet(cache, now), FALSE, 0)
    /\ UNCHANGED <<now, max_size, default_ttl, tvars, heap, lbvars>>

(* stats() *)
stats ==
    /\ cache' = _evict_expired(cache, now)
    /\ touched' = Stored(touched, cache')
    /\ last' = Call("stats", NoKey, now,
                    StatsRet(cache, now, max_size, default_ttl), FALSE, 0)
    /\ UNCHANGED <<now, max_size, default_ttl, tvars, heap, lbvars>>

Next ==
    \/ Tick
    \/ \E key \in Keys, value \in Values, ttl \in TtlArgs : put(key, value, ttl)
    \/ \E key \in Keys : get(key)
    \/ \E key \in Keys : delete(key)
    \/ clear
    \/ size
    \/ stats

Spec == Init /\ [][Next]_vars

(* ----------------------------------------- callers with mutable values *)
(* The caller keeps the object it passed to put, and holds the object get  *)
(* returned; it may change either in place at any time.                    *)
AliasKeys == {"a", "b"}
AliasTtls == {PyNone, PyInt(0), PyStr}

(* the caller changes object id in place, e.g. value.append(x) *)
Mutate(id) ==
    /\ \E c \in Contents \ {heap[id]} : heap' = [heap EXCEPT ![id] = c]
    /\ UNCHANGED <<cache, now, max_size, default_ttl, last, touched, tvars,
                   lbvars>>

NextAlias ==
    \/ Tick
    \/ \E key \in AliasKeys, value \in Refs, ttl \in AliasTtls :
          put(key, value, ttl)
    \/ \E key \in AliasKeys : get(key)
    \/ \E key \in AliasKeys : delete(key)
    \/ clear
    \/ size
    \/ stats
    \/ \E id \in ObjectIds : Mutate(id)

SpecAlias == Init /\ [][NextAlias]_vars

(* ------------------------------------------------------- Flask handlers *)
(* cache = InMemoryCache(max_size=1000, default_ttl=3600) *)
AppMaxSize == 1000
AppDefaultTtl == 3600

Paths == {"a", "b"}
JsonTtls == {PyNone, PyInt(-1), PyInt(0), PyInt(1), PyStr, PyBool(TRUE)}

(* a PUT request: whether request.is_json (the Content-Type), what the     *)
(* body is (a JSON object, the JSON null, or bytes that do not parse),     *)
(* whether the object has the field value, the field value, and the field  *)
(* ttl (None when it is missing)                                           *)
Bodies == {"object", "null", "malformed"}

Request(json, body, has_value, value, ttl) ==
    [json |-> json, body |-> body, has_value |-> has_value, value |-> value,
     ttl |-> ttl]

Requests ==
    {Request(FALSE, "malformed", FALSE, PyNone, PyNone)}
    \cup {Request(TRUE, body, FALSE, PyNone, PyNone) :
            body \in Bodies \ {"object"}}
    \cup {Request(TRUE, "object", FALSE, PyNone, ttl) : ttl \in JsonTtls}
    \cup {Request(TRUE, "object", TRUE, value, ttl) :
            value \in Values, ttl \in JsonTtls}

(* isinstance(x, int): bool is a subclass of int *)
IsInstanceInt(x) == x.kind \in {"int", "bool"}

(* bool(x) *)
Truthy(x) == x.kind \in {"str"} \/ (x.kind \in {"int", "bool"} /\ x.n # 0)

(* get_cache_item: the status of the response *)
GetItemStatus(c, key, t) ==
    IF GetRet(c, key, t) = PyNone THEN 404 ELSE 200

(* put_cache_item: lines 209-211 raise inside the try block, when          *)
(* get_json() cannot parse the body and when `'value' not in data` is      *)
(* evaluated with data = None                                              *)
PutItemRaises(req) == req.json /\ req.body # "object"

(* put_cache_item: whether the request passes the checks of lines 204-224 *)
PutItemValid(req) ==
    /\ req.json
    /\ req.body = "object"
    /\ req.has_value
    /\ req.ttl # PyNone => (IsInstanceInt(req.ttl) /\ ~(req.ttl.n < 0))

(* put_cache_item: the ttl field of the 201 response, line 232 *)
PutItemTtl(req, dflt) == IF Truthy(req.ttl) THEN req.ttl ELSE PyInt(dflt)

(* delete_cache_item: the status of the response *)
DeleteItemStatus(c, key) ==
    IF DeleteRet(c, key) = PyBool(TRUE) THEN 200 ELSE 404

InitHttp ==
    /\ cache = <<>>
    /\ now = 0
    /\ max_size = AppMaxSize
    /\ default_ttl = AppDefaultTtl
    /\ last = [op |-> "init", key |-> NoKey, ret |-> PyNone, raised |-> FALSE,
                status |-> 0, had |-> FALSE, stale |-> {}, gone |-> {}]
    /\ touched = <<>>
    /\ ThreadsIdle
    /\ HeapFresh
    /\ LoadBalancerIdle

(* GET /cache/<key> *)
get_cache_item(key) ==
    /\ cache' = GetStore(cache, key, now)
    /\ touched' = IF KeyIn(cache, key) /\ ~Past(Item(cache, key), now)
                  THEN Stored(Touch(touched, key), cache')
                  ELSE Stored(touched, cache')
    /\ last' = Call("get_cache_item", key, now, GetRet(cache, key, now), FALSE,
                    GetItemStatus(cache, key, now))
    /\ UNCHANGED <<now, max_size, default_ttl, tvars, heap, lbvars>>

(* PUT /cache/<key> *)
put_cache_item(key, req) ==
    IF PutItemRaises(req)
    THEN (* except Exception, lines 241-244 *)
         /\ UNCHANGED <<cache, now, max_size, default_ttl, touched, tvars, heap,
                        lbvars>>
         /\ last' = Call("put_cache_item", key, now, PyNone, TRUE, 500)
    ELSE IF ~PutItemValid(req)
    THEN /\ UNCHANGED <<cache, now, max_size, default_ttl, touched, tvars, heap,
                        lbvars>>
         /\ last' = Call("put_cache_item", key, now, PyNone, FALSE, 400)
    ELSE \E d1 \in Drifts, d2 \in Drifts :
         LET t1 == now
             t2 == now + d1
             t3 == now + d1 + d2
         IN /\ t3 <= MaxTime
            /\ cache' = PutStore(cache, key, req.value,
                                 EffectiveTtl(req.ttl, default_ttl),
                                 max_size, t1, t2, t3)
            /\ now' = t3
            /\ touched' = Stored(Touch(touched, key), cache')
            /\ last' = Call("put_cache_item", key, t2,
                            PutItemTtl(req, default_ttl), FALSE, 201)
            /\ UNCHANGED <<max_size, default_ttl, tvars, heap, lbvars>>

(* DELETE /cache/<key> *)
delete_cache_item(key) ==
    /\ cache' = DeleteStore(cache, key)
    /\ touched' = Stored(touched, cache')
    /\ last' = Call("delete_cache_item", key, now, DeleteRet(cache, key), FALSE,
                    DeleteItemStatus(cache, key))
    /\ UNCHANGED <<now, max_size, default_ttl, tvars, heap, lbvars>>

(* GET /cache/stats *)
get_cache_stats ==
    /\ cache' = _evict_expired(cache, now)
    /\ touched' = Stored(touched, cache')
    /\ last' = Call("get_cache_stats", NoKey, now,
                    StatsRet(cache, now, max_size, default_ttl), FALSE, 200)
    /\ UNCHANGED <<now, max_size, default_ttl, tvars, heap, lbvars>>

(* DELETE /cache *)
clear_cache ==
    /\ cache' = <<>>
    /\ touched' = <<>>
    /\ last' = Call("clear_cache", NoKey, now, PyNone, FALSE, 200)
    /\ UNCHANGED <<now, max_size, default_ttl, tvars, heap, lbvars>>

NextHttp ==
    \/ Tick
    \/ \E key \in Paths : get_cache_item(key)
    \/ \E key \in Paths, req \in Requests : put_cache_item(key, req)
    \/ \E key \in Paths : delete_cache_item(key)
    \/ get_cache_stats
    \/ clear_cache

SpecHttp == InitHttp /\ [][NextHttp]_vars

(* ------------------------------------------------- concurrent callers *)
(* Each thread calls the public methods in a loop. A call waits at        *)
(* `with self._lock`, runs its body one statement at a time, the clock and *)
(* the other threads moving in between, and releases the lock on leaving   *)
(* the with block, whether it returns or raises.                           *)
ThreadKeys == {"a", "b"}
ThreadValues == {PyInt(1)}
ThreadTtls == {PyNone, PyInt(0), PyStr}

Calls ==
    {[op |-> "put", key |-> k, value |-> v, ttl |-> ttl] :
        k \in ThreadKeys, v \in ThreadValues, ttl \in ThreadTtls}
    \cup {[op |-> o, key |-> k, value |-> PyNone, ttl |-> PyNone] :
        o \in {"get", "delete"}, k \in ThreadKeys}
    \cup {[op |-> o, key |-> NoKey, value |-> PyNone, ttl |-> PyNone] :
        o \in {"clear", "size", "stats"}}

FirstLabel(op) ==
    CASE op = "put" -> "put_ttl"
      [] op = "get" -> "get_look"
      [] op = "delete" -> "del_look"
      [] op = "clear" -> "clear_do"
      [] op = "size" -> "size_sweep"
      [] op = "stats" -> "stats_sweep"

AvailableNoLock(t) == TRUE

(* threading.RLock: free, or already held by the calling thread *)
Available(t) == _lock = NoThread \/ _lock = t

(* self._cache[key] = item: in place when the key is there, else appended *)
SetItem(c, item) ==
    IF KeyIn(c, item.key)
    THEN [i \in 1..Len(c) |-> IF c[i].key = item.key THEN item ELSE c[i]]
    ELSE Append(c, item)

Goto(t, label) == pc' = [pc EXCEPT ![t] = label]

Local(t, f) == frame' = [frame EXCEPT ![t] = f]

cvars == <<max_size, default_ttl, last, touched>>

(* a thread calls a public method *)
Start(t) ==
    /\ pc[t] = "idle"
    /\ Goto(t, "enter")
    /\ UNCHANGED <<cache, now, _lock, frame, cvars, heap, lbvars>>

(* with self._lock: __enter__ *)
Acquire(t, call) ==
    /\ pc[t] = "enter"
    /\ Available(t)
    /\ _lock' = t
    /\ Local(t, [NoFrame EXCEPT !.op = call.op, !.key = call.key,
                                !.value = call.value, !.ttl = call.ttl,
                                !.snap = cache])
    /\ Goto(t, FirstLabel(call.op))
    /\ UNCHANGED <<cache, now, cvars, heap, lbvars>>

(* put, lines 65-69 *)
PutTtl(t) ==
    /\ pc[t] = "put_ttl"
    /\ LET eff == EffectiveTtl(frame[t].ttl, default_ttl)
       IN IF ~Comparable(eff)
          THEN /\ Local(t, [frame[t] EXCEPT !.exc = "TypeError"])
               /\ Goto(t, "exit")
          ELSE /\ Local(t, [frame[t] EXCEPT !.ttl = eff, !.t1 = now])
               /\ Goto(t, "put_sweep")
    /\ UNCHANGED <<cache, now, _lock, cvars, heap, lbvars>>

(* put, line 72 *)
PutSweep(t) ==
    /\ pc[t] = "put_sweep"
    /\ cache' = _evict_expired(cache, now)
    /\ Local(t, [frame[t] EXCEPT !.t2 = now])
    /\ Goto(t, "put_room")
    /\ UNCHANGED <<now, _lock, cvars, heap, lbvars>>

(* put, lines 75-79 *)
PutRoom(t) ==
    /\ pc[t] = "put_room"
    /\ cache' = MakeRoom(cache, frame[t].key, max_size)
    /\ Goto(t, "put_set")
    /\ UNCHANGED <<now, _lock, frame, cvars, heap, lbvars>>

(* put, lines 82-89 *)
PutSet(t) ==
    /\ pc[t] = "put_set"
    /\ cache' = SetItem(cache, NewItem(frame[t].key, frame[t].value,
                                       frame[t].ttl, frame[t].t1, now))
    /\ Local(t, [frame[t] EXCEPT !.t3 = now, !.ret = PyBool(TRUE)])
    /\ Goto(t, "exit")
    /\ UNCHANGED <<now, _lock, cvars, heap, lbvars>>

(* get, lines 102-105 *)
GetLook(t) ==
    /\ pc[t] = "get_look"
    /\ IF ~KeyIn(cache, frame[t].key)
       THEN /\ Local(t, [frame[t] EXCEPT !.ret = PyNone])
            /\ Goto(t, "exit")
       ELSE /\ Local(t, [frame[t] EXCEPT !.item = Item(cache, frame[t].key)])
            /\ Goto(t, "get_check")
    /\ UNCHANGED <<cache, now, _lock, cvars, heap, lbvars>>

(* get, lines 108-110 *)
GetCheck(t) ==
    /\ pc[t] = "get_check"
    /\ IF _is_expired(frame[t].item, now)
       THEN IF KeyIn(cache, frame[t].key)
            THEN /\ cache' = DelKey(cache, frame[t].key)
                 /\ Local(t, [frame[t] EXCEPT !.t1 = now, !.ret = PyNone])
                 /\ Goto(t, "exit")
            ELSE /\ cache' = cache
                 /\ Local(t, [frame[t] EXCEPT !.t1 = now, !.exc = "KeyError"])
                 /\ Goto(t, "exit")
       ELSE /\ cache' = cache
            /\ Local(t, [frame[t] EXCEPT !.t1 = now])
            /\ Goto(t, "get_move")
    /\ UNCHANGED <<now, _lock, cvars, heap, lbvars>>

(* get, lines 113-115 *)
GetMove(t) ==
    /\ pc[t] = "get_move"
    /\ IF KeyIn(cache, frame[t].key)
       THEN /\ cache' = Append(DelKey(cache, frame[t].key),
                               Item(cache, frame[t].key))
            /\ Local(t, [frame[t] EXCEPT !.ret = frame[t].item.value])
       ELSE /\ cache' = cache
            /\ Local(t, [frame[t] EXCEPT !.exc = "KeyError"])
    /\ Goto(t, "exit")
    /\ UNCHANGED <<now, _lock, cvars, heap, lbvars>>

(* delete, line 128 *)
DelLook(t) ==
    /\ pc[t] = "del_look"
    /\ IF KeyIn(cache, frame[t].key)
       THEN /\ Goto(t, "del_do")
            /\ frame' = frame
       ELSE /\ Local(t, [frame[t] EXCEPT !.ret = PyBool(FALSE)])
            /\ Goto(t, "exit")
    /\ UNCHANGED <<cache, now, _lock, cvars, heap, lbvars>>

(* delete, lines 129-130 *)
DelDo(t) ==
    /\ pc[t] = "del_do"
    /\ IF KeyIn(cache, frame[t].key)
       THEN /\ cache' = DelKey(cache, frame[t].key)
            /\ Local(t, [frame[t] EXCEPT !.ret = PyBool(TRUE)])
       ELSE /\ cache' = cache
            /\ Local(t, [frame[t] EXCEPT !.exc = "KeyError"])
    /\ Goto(t, "exit")
    /\ UNCHANGED <<now, _lock, cvars, heap, lbvars>>

(* clear, line 136 *)
ClearDo(t) ==
    /\ pc[t] = "clear_do"
    /\ cache' = <<>>
    /\ Goto(t, "exit")
    /\ UNCHANGED <<now, _lock, frame, cvars, heap, lbvars>>

(* size, line 141; stats, line 147 *)
Sweep(t) ==
    /\ pc[t] \in {"size_sweep", "stats_sweep"}
    /\ cache' = _evict_expired(cache, now)
    /\ Local(t, [frame[t] EXCEPT !.t1 = now])
    /\ Goto(t, IF pc[t] = "size_sweep" THEN "size_len" ELSE "stats_len")
    /\ UNCHANGED <<now, _lock, cvars, heap, lbvars>>

(* size, line 142 *)
SizeLen(t) ==
    /\ pc[t] = "size_len"
    /\ Local(t, [frame[t] EXCEPT !.ret = PyInt(Len(cache))])
    /\ Goto(t, "exit")
    /\ UNCHANGED <<cache, now, _lock, cvars, heap, lbvars>>

(* stats, lines 148-152 *)
StatsLen(t) ==
    /\ pc[t] = "stats_len"
    /\ Local(t, [frame[t] EXCEPT !.ret = [size |-> PyInt(Len(cache)),
                                          max_size |-> max_size,
                                          default_ttl |-> default_ttl]])
    /\ Goto(t, "exit")
    /\ UNCHANGED <<cache, now, _lock, cvars, heap, lbvars>>

ReleaseOnReturnOnly(t) ==
    /\ pc[t] = "exit"
    /\ _lock' = IF _lock = t /\ frame[t].exc = "none" THEN NoThread ELSE _lock
    /\ Local(t, NoFrame)
    /\ Goto(t, "idle")
    /\ UNCHANGED <<cache, now, cvars, heap, lbvars>>

(* with self._lock: __exit__, on return and on an exception alike *)
Release(t) ==
    /\ pc[t] = "exit"
    /\ _lock' = IF _lock = t THEN NoThread ELSE _lock
    /\ Local(t, NoFrame)
    /\ Goto(t, "idle")
    /\ UNCHANGED <<cache, now, cvars, heap, lbvars>>

NextThreads ==
    \/ Tick
    \/ \E t \in Threads : Start(t)
    \/ \E t \in Threads, call \in Calls : Acquire(t, call)
    \/ \E t \in Threads : PutTtl(t)
    \/ \E t \in Threads : PutSweep(t)
    \/ \E t \in Threads : PutRoom(t)
    \/ \E t \in Threads : PutSet(t)
    \/ \E t \in Threads : GetLook(t)
    \/ \E t \in Threads : GetCheck(t)
    \/ \E t \in Threads : GetMove(t)
    \/ \E t \in Threads : DelLook(t)
    \/ \E t \in Threads : DelDo(t)
    \/ \E t \in Threads : ClearDo(t)
    \/ \E t \in Threads : Sweep(t)
    \/ \E t \in Threads : SizeLen(t)
    \/ \E t \in Threads : StatsLen(t)
    \/ \E t \in Threads : Release(t)

SpecThreads == Init /\ [][NextThreads]_vars

(* Fair scheduling: a thread that can take its next step inside a method   *)
(* body, or leave the with block, eventually does, and a thread waiting at *)
(* `with self._lock` gets the lock if it is free again and again.          *)
Body(t) ==
    \/ PutTtl(t) \/ PutSweep(t) \/ PutRoom(t) \/ PutSet(t)
    \/ GetLook(t) \/ GetCheck(t) \/ GetMove(t)
    \/ DelLook(t) \/ DelDo(t)
    \/ ClearDo(t)
    \/ Sweep(t) \/ SizeLen(t) \/ StatsLen(t)
    \/ Release(t)

Fairness ==
    \A t \in Threads :
       /\ WF_vars(Body(t))
       /\ SF_vars(\E call \in Calls : Acquire(t, call))

SpecThreadsFair == SpecThreads /\ Fairness

(* ---------------------------------------------- LoadBalancer.py: do_GET *)
(* Each handler thread serves GET requests in a loop, one statement of     *)
(* do_GET at a time; `chosen` lists the indices read at line 20, in the    *)
(* order they were read.                                                   *)
cachevars ==
    <<cache, now, max_size, default_ttl, last, touched, tvars, heap>>

Started == {h \in Handlers : handler[h].pc \in {"with", "read"}}

At(h, label) == handler[h].pc = label

Step(h, label, backend) ==
    handler' = [handler EXCEPT ![h] = [pc |-> label, backend |-> backend]]

LockAvailableNoLock(h) == TRUE

(* threading.Lock: free *)
LockAvailable(h) == lock = NoHandler

(* ThreadingTCPServer hands a GET request to a new thread: do_GET *)
Accept(h) ==
    /\ At(h, "idle")
    /\ Len(chosen) + Cardinality(Started) < MaxSelections
    /\ Step(h, "with", NoBackend)
    /\ UNCHANGED <<current, lock, chosen, cachevars>>

(* line 19, with lock: __enter__ *)
LockAcquire(h) ==
    /\ At(h, "with")
    /\ LockAvailable(h)
    /\ lock' = h
    /\ Step(h, "read", NoBackend)
    /\ UNCHANGED <<current, chosen, cachevars>>

(* line 20, backend = BACKENDS[current] *)
ReadBackend(h) ==
    /\ At(h, "read")
    /\ Step(h, "incr", BACKENDS[current + 1])
    /\ chosen' = Append(chosen, current)
    /\ UNCHANGED <<current, lock, cachevars>>

(* line 21, current = (current + 1) % len(BACKENDS) *)
Increment(h) ==
    /\ At(h, "incr")
    /\ current' = (current + 1) % Len(BACKENDS)
    /\ Step(h, "unlock", handler[h].backend)
    /\ UNCHANGED <<lock, chosen, cachevars>>

(* with lock: __exit__ *)
Unlock(h) ==
    /\ At(h, "unlock")
    /\ lock' = NoHandler
    /\ Step(h, "forward", handler[h].backend)
    /\ UNCHANGED <<current, chosen, cachevars>>

(* lines 23-36: the request goes to the chosen backend, and its response   *)
(* or a 502 goes back                                                      *)
Forward(h) ==
    /\ At(h, "forward")
    /\ Step(h, "idle", NoBackend)
    /\ UNCHANGED <<current, lock, chosen, cachevars>>

NextBalancer ==
    \/ \E h \in Handlers : Accept(h)
    \/ \E h \in Handlers : LockAcquire(h)
    \/ \E h \in Handlers : ReadBackend(h)
    \/ \E h \in Handlers : Increment(h)
    \/ \E h \in Handlers : Unlock(h)
    \/ \E h \in Handlers : Forward(h)

SpecBalancer == Init /\ [][NextBalancer]_vars

(* ------------------------------------------------------------- properties *)
(* clock values a later call may read, beyond the explored horizon *)
FarFuture == MaxTime + 3
Later == 0..FarFuture

Items(c) == {c[i] : i \in 1..Len(c)}

(* the entries of c whose expires_at is not in the past at t, in order *)
Live(c, t) == SelectSeq(c, LAMBDA e : ~Past(e, t))

(* the store put(key, value, ttl) leaves when it starts in the current     *)
(* state and the clock moves by d1 and then d2 between its readings        *)
AfterPut(key, value, ttl, d1, d2) ==
    PutStore(cache, key, value, EffectiveTtl(ttl, default_ttl), max_size,
             now, now + d1, now + d1 + d2)

PositiveTtls == {ttl \in TtlArgs : ttl.kind = "int" /\ ttl.n > 0}
NonPositiveTtls == {ttl \in TtlArgs : ttl.kind = "int" /\ ttl.n <= 0}
StorableTtls == {ttl \in TtlArgs :
                    Comparable(EffectiveTtl(ttl, default_ttl))}

(* C1: immediately after every put returns, the raw number of stored       *)
(* entries, expired-but-unswept ones included, is at most max_size.        *)
C1_SizeBound ==
    last.op = "put" => Len(cache) <= max_size

C1_Witness ==
    /\ last.op = "put" /\ ~last.raised
    /\ max_size = 2 /\ Len(cache) = max_size
    /\ \E i \in 1..Len(cache) : Past(cache[i], now)

(* C2: get(key) never returns the value of an entry whose expires_at is    *)
(* set and strictly less than the current time: it returns None and        *)
(* removes the entry. So after put(key, value, ttl) with ttl > 0 and a     *)
(* clock advance of more than ttl seconds, get(key) is a miss and a        *)
(* following size() does not count key.                                    *)
C2_GetNeverServesExpired ==
    /\ (last.op = "get" /\ last.key \in last.stale) =>
          last.ret = PyNone /\ ~KeyIn(cache, last.key)
    /\ \A key \in KeysOf(cache) :
          Past(Item(cache, key), now) =>
             /\ GetRet(cache, key, now) = PyNone
             /\ ~KeyIn(GetStore(cache, key, now), key)
    /\ \A key \in Keys, value \in Values, ttl \in PositiveTtls,
          d1 \in Drifts, d2 \in Drifts :
          LET c1 == AfterPut(key, value, ttl, d1, d2)
              back == now + d1 + d2
          IN \A t \in Later :
                t > back + ttl.n =>
                   LET c2 == GetStore(c1, key, t)
                   IN /\ GetRet(c1, key, t) = PyNone
                      /\ ~KeyIn(c2, key)
                      /\ SizeRet(c2, t).n = Len(Live(DelKey(c1, key), t))

C2_Witness ==
    /\ last.op = "get" /\ last.had /\ last.key \in last.stale
    /\ last.ret = PyNone /\ last.key \in last.gone

(* C3: when put inserts a key that is not in the store and the store holds *)
(* max_size entries after the expiry sweep, exactly one entry is removed,  *)
(* the one whose last successful get or put is oldest; every other entry   *)
(* is kept. With max_size = 2: put(a), put(b), get(a), put(c) leaves a and *)
(* c retrievable and b a miss.                                             *)
C3_EvictsLeastRecentlyUsed ==
    \A key \in Keys \ KeysOf(cache), value \in Values, ttl \in StorableTtls,
       d1 \in Drifts, d2 \in Drifts :
       LET swept == Live(cache, now + d1)
           c1 == AfterPut(key, value, ttl, d1, d2)
           victim == Head(Stored(touched, swept))
       IN Len(swept) = max_size =>
             /\ ~KeyIn(c1, victim)
             /\ Items(swept) \ Items(c1) = {Item(swept, victim)}
             /\ KeysOf(c1) = (KeysOf(swept) \ {victim}) \cup {key}
             /\ Len(c1) = max_size

C3_Witness ==
    /\ last.op = "put" /\ ~last.had /\ last.key = "c"
    /\ max_size = 2
    /\ last.gone = {"b"} /\ last.stale = {}
    /\ touched = <<"a", "c">>
    /\ GetRet(cache, "a", now) = PyInt(1)
    /\ GetRet(cache, "b", now) = PyNone
    /\ GetRet(cache, "c", now) = PyInt(1)

(* C4: a put on a key that is already in the store never removes a live    *)
(* entry with a different key, even when the store holds max_size entries, *)
(* also when the overwritten key's old entry had itself expired and was    *)
(* removed by the sweep at the start of the same put.                      *)
C4_OverwriteNeverEvicts ==
    /\ (last.op = "put" /\ last.had) => last.gone \subseteq last.stale
    /\ \A key \in KeysOf(cache), value \in Values, ttl \in StorableTtls,
          d1 \in Drifts, d2 \in Drifts :
          LET c1 == AfterPut(key, value, ttl, d1, d2)
          IN \A e \in Items(cache) :
                (e.key # key /\ ~Past(e, now + d1)) => e \in Items(c1)

C4_Witness ==
    /\ last.op = "put" /\ last.had /\ last.key \in last.stale
    /\ max_size = 2 /\ Len(cache) = max_size
    /\ last.gone = {}

(* C6: for every key, value and ttl > 0, put(key, value, ttl) immediately  *)
(* followed by get(key), the clock not having advanced beyond ttl since    *)
(* the put read it, returns value, whatever the store held and however     *)
(* full it was.                                                            *)
C6_PutThenGet ==
    \A key \in Keys, value \in Values, ttl \in PositiveTtls,
       d1 \in Drifts, d2 \in Drifts :
       LET c1 == AfterPut(key, value, ttl, d1, d2)
       IN \A t \in (now + d1 + d2)..(now + ttl.n) :
             GetRet(c1, key, t) = value

C6_Witness ==
    /\ last.op = "get" /\ last.had /\ last.ret = PyInt(1)
    /\ max_size = 2 /\ Len(cache) = max_size
    /\ Item(cache, last.key).ttl = PyInt(1)
    /\ Item(cache, last.key).expires_at = PyInt(now)

(* C7: an entry stored by put with an explicit ttl <= 0 never expires: it  *)
(* is stored with no ttl and no expires_at, and after any clock advance it *)
(* is still returned by get and counted by size and stats, until it is     *)
(* deleted, cleared, overwritten or LRU-evicted.                           *)
C7_NonPositiveTtlNeverExpires ==
    /\ \A key \in Keys, value \in Values, ttl \in NonPositiveTtls,
          d1 \in Drifts, d2 \in Drifts :
          LET c1 == AfterPut(key, value, ttl, d1, d2)
              e == c1[Len(c1)]
          IN /\ e.key = key /\ e.value = value
             /\ e.ttl = PyNone /\ e.expires_at = PyNone
             /\ GetRet(c1, key, FarFuture) = value
             /\ e \in Items(_evict_expired(c1, FarFuture))
    /\ \A e \in Items(cache) :
          e.expires_at = PyNone =>
             /\ \A t \in Later :
                   /\ GetRet(cache, e.key, t) = e.value
                   /\ e \in Items(GetStore(cache, e.key, t))
                   /\ e \in Items(_evict_expired(cache, t))
                   /\ SizeRet(cache, t).n >= 1
                   /\ StatsRet(cache, t, max_size, default_ttl).size.n >= 1
             /\ \A key \in Keys \ {e.key} :
                   e \in Items(GetStore(cache, key, now))
    /\ (\E e \in Items(cache) : e.expires_at = PyNone) =>
       \A key \in Keys, value \in Values, ttl \in StorableTtls,
          d1 \in Drifts, d2 \in Drifts :
          LET swept == Live(cache, now + d1)
              c1 == AfterPut(key, value, ttl, d1, d2)
          IN \A e \in Items(cache) \ Items(c1) :
                (e.expires_at = PyNone /\ e.key # key) =>
                   /\ ~KeyIn(swept, key)
                   /\ Len(swept) = max_size
                   /\ e.key = Head(Stored(touched, swept))

C7_Witness ==
    /\ last.op = "get" /\ last.had /\ last.ret = PyInt(1)
    /\ Item(cache, last.key).expires_at = PyNone
    /\ Item(cache, last.key).created_at = 0
    /\ now = MaxTime

(* C8: stats().size equals size() when both are taken at the same clock    *)
(* reading with no call in between, and the number counts no entry whose   *)
(* expires_at is in the past, entries no get or put touched included.      *)
C8_StatsMatchesSize ==
    /\ \A t \in now..FarFuture :
          /\ StatsRet(cache, t, max_size, default_ttl).size = SizeRet(cache, t)
          /\ SizeRet(cache, t).n =
                Cardinality({i \in 1..Len(cache) : ~Past(cache[i], t)})
    /\ last.op = "size" =>
          /\ last.ret.n = Len(cache)
          /\ last.gone = last.stale
    /\ last.op = "stats" =>
          /\ last.ret.size.n = Len(cache)
          /\ last.gone = last.stale

C8_Witness ==
    /\ last.op = "stats" /\ last.stale # {} /\ last.gone = last.stale
    /\ last.ret.size = PyInt(1)
    /\ max_size = 2

(* C9: delete(key) on a key that is not in the store returns False without *)
(* raising and leaves entries, values, expiry and recency order unchanged, *)
(* so size() is the same before and after; repeating it gives the same.    *)
C9_DeleteAbsentKey ==
    /\ (last.op = "delete" /\ ~last.had) =>
          last.ret = PyBool(FALSE) /\ ~last.raised /\ last.gone = {}
    /\ \A key \in Keys \ KeysOf(cache) :
          /\ DeleteRet(cache, key) = PyBool(FALSE)
          /\ DeleteStore(cache, key) = cache
          /\ SizeRet(DeleteStore(cache, key), now) = SizeRet(cache, now)
          /\ DeleteRet(DeleteStore(cache, key), key) = PyBool(FALSE)
          /\ DeleteStore(DeleteStore(cache, key), key) = cache

C9_Witness ==
    /\ last.op = "delete" /\ ~last.had /\ last.ret = PyBool(FALSE)
    /\ Len(cache) = 2

(* C10: GET /cache/<key> answers 200 with the stored value whenever the    *)
(* key is in the store and not expired, and 404 only when the key is       *)
(* absent or expired, for every value PUT accepts, null included.          *)
C10_GetAnswers200WhenStored ==
    last.op = "get_cache_item" =>
       /\ (last.had /\ last.key \notin last.stale) =>
             /\ last.status = 200
             /\ KeyIn(cache, last.key)
             /\ last.ret = Item(cache, last.key).value
       /\ last.status = 404 => (~last.had \/ last.key \in last.stale)

(* C5: under any interleaving of concurrent callers each public method     *)
(* runs as one critical section under the single lock: at most one thread  *)
(* is inside a method body at a time, and what a call returns and the      *)
(* store it leaves are those of the whole method applied, at the clock     *)
(* values it read, to the store it found when it took the lock, so the     *)
(* calls take effect one after another in the order they took the lock.    *)
InBody(t) == pc[t] \notin {"idle", "enter"}

AsIfAlone(f) ==
    CASE f.op = "put" ->
           IF f.exc = "TypeError"
           THEN cache = f.snap
           ELSE /\ f.exc = "none"
                /\ f.ret = PyBool(TRUE)
                /\ cache = PutStore(f.snap, f.key, f.value, f.ttl, max_size,
                                    f.t1, f.t2, f.t3)
      [] f.op = "get" ->
           /\ f.exc = "none"
           /\ f.ret = GetRet(f.snap, f.key, f.t1)
           /\ cache = GetStore(f.snap, f.key, f.t1)
      [] f.op = "delete" ->
           /\ f.exc = "none"
           /\ f.ret = DeleteRet(f.snap, f.key)
           /\ cache = DeleteStore(f.snap, f.key)
      [] f.op = "clear" ->
           /\ f.exc = "none"
           /\ cache = <<>>
      [] f.op = "size" ->
           /\ f.exc = "none"
           /\ f.ret = SizeRet(f.snap, f.t1)
           /\ cache = _evict_expired(f.snap, f.t1)
      [] f.op = "stats" ->
           /\ f.exc = "none"
           /\ f.ret = StatsRet(f.snap, f.t1, max_size, default_ttl)
           /\ cache = _evict_expired(f.snap, f.t1)

C5_OneCriticalSection ==
    /\ \A t \in Threads : InBody(t) => _lock = t
    /\ \A t \in Threads, u \in Threads : (InBody(t) /\ InBody(u)) => t = u
    /\ \A t \in Threads : pc[t] = "exit" => AsIfAlone(frame[t])

C5_Witness ==
    /\ pc[1] = "exit" /\ pc[2] = "enter"
    /\ frame[1].op = "put" /\ frame[1].exc = "none"
    /\ Len(frame[1].snap) = max_size
    /\ frame[1].key \notin KeysOf(frame[1].snap)
    /\ frame[1].t3 > frame[1].t1

(* C11: the ttl field of a 201 response to PUT /cache/<key> is the         *)
(* effective ttl of the stored entry: the explicit ttl when the request    *)
(* gives one, 0 included, and default_ttl when the request gives none.     *)
C11_ResponseTtlIsEffective ==
    [][\A key \in Paths, req \in Requests :
          (put_cache_item(key, req) /\ last'.status = 201) =>
             last'.ret = IF req.ttl # PyNone THEN req.ttl
                         ELSE PyInt(default_ttl)]_vars

(* C12: a PUT /cache/<key> whose body is not JSON, has no field value, or  *)
(* has a ttl that is not a non-negative integer is answered 400 and        *)
(* leaves the store as it was: entries, order and expiry times.            *)
NotJson(req) == ~req.json \/ req.body = "malformed"

NotNonNegativeInteger(x) == x.kind # "int" \/ x.n < 0

Malformed(req) ==
    \/ NotJson(req)
    \/ ~req.has_value
    \/ req.ttl # PyNone /\ NotNonNegativeInteger(req.ttl)

C12_MalformedPutRejected ==
    [][\A key \in Paths, req \in Requests :
          (put_cache_item(key, req) /\ Malformed(req)) =>
             /\ last'.status = 400
             /\ cache' = cache
             /\ touched' = touched]_vars

(* C13: a stored value is not aliased with the caller's object: when the   *)
(* caller changes in place an object it passed to put, or an object a get  *)
(* returned, what get(key) gives for every key stays what it was.          *)
C13_StoredValueNotAliased ==
    [][\A id \in ObjectIds :
          Mutate(id) =>
             \A key \in AliasKeys :
                Deref(GetRet(cache', key, now'), heap')
                   = Deref(GetRet(cache, key, now), heap)]_vars

(* C14: the order of the store is the order of use. Right after a get     *)
(* that hits and after every put that returns, the key is last; the other  *)
(* stored keys keep their relative order under every call, so the order of *)
(* the store always lists the stored keys by their last successful get or  *)
(* put, oldest first; a get that misses, delete, size and stats only take  *)
(* keys out.                                                               *)
KeySeq(c) == [i \in 1..Len(c) |-> c[i].key]

Hit == last.op = "get" /\ last.had /\ last.key \notin last.stale

C14_RecencyOrder ==
    /\ KeySeq(cache) = touched
    /\ ((last.op = "put" /\ ~last.raised) \/ Hit) =>
          /\ cache # <<>>
          /\ cache[Len(cache)].key = last.key

C14_Witness ==
    /\ Hit /\ Len(cache) = 2
    /\ cache[2].key = last.key
    /\ cache[2].created_at < cache[1].created_at

(* C15: put sweeps every expired entry before it decides on LRU eviction,  *)
(* expired meaning expires_at in the past at the clock value the sweep     *)
(* read. A put removes an unexpired entry only when the store held         *)
(* max_size unexpired entries under other keys, and then only one; no      *)
(* entry the sweep found expired is left after a put, so a live entry is   *)
(* never evicted while an expired one stays.                               *)
Before == KeysOf(cache) \cup last.gone

LiveOthersBefore == (Before \ last.stale) \ {last.key}

C15_SweepBeforeEviction ==
    (last.op = "put" /\ ~last.raised) =>
       /\ last.stale \subseteq last.gone \cup {last.key}
       /\ last.gone \ last.stale # {} =>
             /\ Cardinality(LiveOthersBefore) = max_size
             /\ Cardinality(last.gone \ last.stale) = 1

C15_Witness ==
    /\ last.op = "put" /\ ~last.raised /\ ~last.had
    /\ max_size = 2 /\ Len(cache) = 2
    /\ Cardinality(last.gone) = 1 /\ last.gone = last.stale

(* get(key) and delete(key) leave every entry under another key in the     *)
(* store and as it was, and a clock advance changes nothing in the store.  *)
(* last' names the call that made the step; only Tick leaves last as it   *)
(* was, and by the second conjunct it leaves the store as it was too       *)
PointOpsFrame ==
    /\ last'.op \in {"get", "delete"} =>
          \A e \in Items(cache) : e.key # last'.key => e \in Items(cache')
    /\ cache' = cache \/ ~Tick

(* the expired entry e is taken out of the store, or replaced, by the step *)
Removed(e) == Past(e, now) /\ e \notin Items(cache')

SweptOrOwnKey(e) ==
    \/ last'.op \in {"put", "size", "stats"}
    \/ last'.op \in {"get", "delete"} /\ last'.key = e.key

(* C16 as stated: get(key) and delete(key) never remove or change an entry *)
(* under another key, and a clock advance alone changes nothing in the     *)
(* store, so an expired entry stays in the store until a put, size or      *)
(* stats sweeps it or a get or delete on its own key removes it.           *)
C16_ExpiredStaysUntilSweptOrOwnKey ==
    [][/\ PointOpsFrame
       /\ \A e \in Items(cache) : Removed(e) => SweptOrOwnKey(e)]_vars

(* C16, amended: get(key) and delete(key) never remove or change an entry  *)
(* under another key, and a clock advance alone changes nothing in the     *)
(* store, so an expired entry stays in the store until a put, size or      *)
(* stats sweeps it, a get or delete on its own key removes it, or clear()  *)
(* empties the store.                                                      *)
C16_LazyExpiry ==
    [][/\ PointOpsFrame
       /\ \A e \in Items(cache) : Removed(e) =>
             (SweptOrOwnKey(e) \/ last'.op = "clear")]_vars

C16_Witness ==
    /\ Hit /\ Len(cache) = 2
    /\ \E e \in Items(cache) : Past(e, now) /\ e.key # last.key

(* C17: every stored entry that has a ttl has expires_at = created_at +   *)
(* ttl, for every put, the clock being free to advance between two of the  *)
(* put's readings; an entry without a ttl has no expires_at.               *)
C17_ExpiresAtIsCreatedAtPlusTtl ==
    \A e \in Items(cache) :
       IF e.ttl # PyNone
       THEN e.expires_at = PyInt(e.created_at + e.ttl.n)
       ELSE e.expires_at = PyNone

(* C18: delete(key) returns True exactly when key is in the store at the   *)
(* call, expired or not: for an expired entry no call has swept, for which *)
(* a get at the same instant misses (404), delete returns True and DELETE  *)
(* /cache/<key> answers 200; delete sweeps nothing, every entry under      *)
(* another key stays, expired ones too.                                    *)
C18_DeleteReportsPhysicalPresence ==
    /\ last.op = "delete_cache_item" =>
          /\ last.ret = PyBool(last.had)
          /\ last.status = (IF last.had THEN 200 ELSE 404)
          /\ last.gone = (IF last.had THEN {last.key} ELSE {})
    /\ \A key \in Paths :
          /\ DeleteRet(cache, key) = PyBool(KeyIn(cache, key))
          /\ DeleteItemStatus(cache, key)
                = (IF KeyIn(cache, key) THEN 200 ELSE 404)
          /\ (KeyIn(cache, key) /\ Past(Item(cache, key), now)) =>
                /\ GetRet(cache, key, now) = PyNone
                /\ GetItemStatus(cache, key, now) = 404
          /\ \A e \in Items(cache) :
                e.key # key => e \in Items(DeleteStore(cache, key))
          /\ ~KeyIn(DeleteStore(cache, key), key)

C18_Witness ==
    /\ last.op = "delete_cache_item" /\ last.had
    /\ last.key \in last.stale
    /\ last.ret = PyBool(TRUE) /\ last.status = 200
    /\ \E e \in Items(cache) : Past(e, now)

(* C19: the store never deadlocks. Every public method releases the lock  *)
(* on every way out of its body, a raise included (put with a ttl that     *)
(* cannot be compared to 0), so the lock is free whenever no call is in a  *)
(* body, and under fair scheduling every call a thread has started         *)
(* eventually returns.                                                     *)
C19_NoDeadlock ==
    /\ []((\A t \in Threads : ~InBody(t)) => _lock = NoThread)
    /\ \A t \in Threads : (pc[t] = "enter") ~> (pc[t] = "idle")

C19_Witness ==
    /\ pc[1] = "exit" /\ frame[1].exc = "TypeError" /\ _lock = 1
    /\ pc[2] = "enter"

(* C20: in the round-robin forwarder the selection is atomic under any    *)
(* interleaving of GET handlers. current stays in 0..len(BACKENDS)-1; only *)
(* one handler at a time is between reading current and writing it, so no  *)
(* two selections read the same index without an increment in between; in  *)
(* the order the handlers take the lock the indices read go 0, 1, 2, 0,... *)
(* through BACKENDS in list order, so any len(BACKENDS) selections in a    *)
(* row pick each backend exactly once.                                     *)
Selecting == {h \in Handlers : handler[h].pc \in {"read", "incr", "unlock"}}

C20_RoundRobin ==
    LET N == Len(BACKENDS)
    IN /\ current \in 0..(N - 1)
       /\ Cardinality(Selecting) <= 1
       /\ chosen # <<>> => chosen[1] = 0
       /\ \A i \in 1..(Len(chosen) - 1) : chosen[i + 1] = (chosen[i] + 1) % N
       /\ \A i \in 1..(Len(chosen) - N + 1) :
             {BACKENDS[chosen[j] + 1] : j \in i..(i + N - 1)}
                = {BACKENDS[k] : k \in 1..N}
       /\ \A h \in Handlers :
             handler[h].pc = "incr" =>
                handler[h].backend = BACKENDS[chosen[Len(chosen)] + 1]

C20_Witness ==
    /\ Len(chosen) = Len(BACKENDS) + 1
    /\ chosen[Len(chosen)] = 0
    /\ handler[1].pc = "incr" /\ handler[1].backend = BACKENDS[1]
    /\ handler[2].pc = "forward" /\ handler[2].backend = BACKENDS[3]

====
